---- MODULE Spec2Model ----
(***************************************************************************)
(* The load-generation and sampling engine of ApplePiDiagnostics:          *)
(*   diagnostics/cpu/cpu_test.py  run_cpu_test, _cpu_worker                *)
(*   diagnostics/ram/ram_test.py  run_ram_test                             *)
(* One behaviour is one call of run_cpu_test or of run_ram_test, together  *)
(* with the worker processes it spawns, the caller that holds the          *)
(* stop_event, and the environment (psutil, the progress callback, the     *)
(* allocator, the process primitives), whose failures are choices.         *)
(*                                                                         *)
(* Time is a wall clock in whole seconds.  It advances only where the code *)
(* blocks: psutil.cpu_percent(interval=...) and Process.join(timeout=1).   *)
(* Sizes are in bytes.  Floats that the code obtains by a division are     *)
(* kept as fractions [num, den].  run_ram_test blocks nowhere, so its      *)
(* clock stands still and its timestamps are all equal.                    *)
(***************************************************************************)
EXTENDS Integers, Sequences, FiniteSets, TLC

VARIABLES
  kind,              \* "CPU" (run_cpu_test) or "RAM" (run_ram_test)
  pc,                \* position of the calling thread inside the function
  duration,          \* run_cpu_test argument
  workers,           \* run_cpu_test argument, NoWorkers for None; resolved at start
  sample_interval,   \* run_cpu_test argument
  progress_callback, \* TRUE when a callback is supplied (both functions)
  stop_event,        \* TRUE when the caller supplies a stop_event
  token,             \* state of the Event the run uses (stop_event_mp)
  now,               \* time.time()
  stop_ts,           \* the deadline
  processes,         \* the list of spawned workers, each at a position of _cpu_worker
  sidx,              \* index of the worker the stop loop is at
  sstep,             \* position inside the body of the stop loop
  samples,           \* the sample list
  result,            \* the returned dict, NoResult until the return
  total_mb, chunk_mb, passes,   \* run_ram_test arguments
  available,         \* psutil.virtual_memory().available at run start
  chunk, target_bytes,          \* run_ram_test locals
  p, bytes_written, tested_bytes, errors,
  log                \* history kept for the statements below (not program state)

cpuVars == <<duration, workers, sample_interval, stop_event, token, now, stop_ts,
             processes, sidx, sstep>>
ramVars == <<total_mb, chunk_mb, passes, available, chunk, target_bytes, p,
             bytes_written, tested_bytes, errors>>
vars == <<kind, pc, progress_callback, samples, result, cpuVars, ramVars, log>>

----------------------------------------------------------------------------
(* Bounds of the model *)

MaxWorkers == 1
MaxDuration == 2
MaxInterval == 2
MaxTotalMb == 2
MaxChunkMb == 1
MaxPasses == 2
MaxFaults == 2

(* Program constants *)

MiB == 1048576
JoinTimeout == 1
MinDuration == 1
MinChunkMb == 1
MinPasses == 1

(* Environment *)

NumCores == 2
NoWorkers == -100
NoResult == [status |-> "none"]
NoCancel == [at |-> -1, n |-> -1, pc |-> "none"]

Max(a, b) == IF a >= b THEN a ELSE b
Min(a, b) == IF a <= b THEN a ELSE b

RECURSIVE SumSeq(_)
SumSeq(s) == IF s = << >> THEN 0 ELSE Head(s) + SumSeq(Tail(s))

Frac(n, d) == [num |-> n, den |-> d]
Zero == Frac(0, 1)
FracAdd(a, b) == Frac(a.num * b.den + b.num * a.den, a.den * b.den)

RECURSIVE FracSum(_)
FracSum(s) == IF s = << >> THEN Zero ELSE FracAdd(Head(s), FracSum(Tail(s)))

RECURSIVE Filter(_, _)
Filter(s, key) ==
  IF s = << >> THEN << >>
  ELSE IF key \in DOMAIN Head(s)
       THEN <<Head(s)>> \o Filter(Tail(s), key)
       ELSE Filter(Tail(s), key)

----------------------------------------------------------------------------
(* run_cpu_test: pure parts *)

\* cpu_test.py:84-85  workers = psutil.cpu_count(logical=True) or 1
ResolveWorkers(w) == IF w = NoWorkers THEN (IF NumCores = 0 THEN 1 ELSE NumCores) ELSE w

\* cpu_test.py:87  stop_ts = time.time() + max(1, int(duration))
Deadline(t, d) == t + Max(MinDuration, d)

\* cpu_test.py:61  the condition of the worker's loop
\* (variant: the worker leaves one second before the deadline)
WorkerCondEarly(t, ts, tok) == t + 1 < ts /\ ~tok
\* (variant: the worker reads the deadline only)
WorkerCondNoEvent(t, ts, tok) == t < ts
WorkerCond(t, ts, tok) == t < ts /\ ~tok

\* cpu_test.py:104  the condition of the sampling loop: the event is read only
\* when the caller supplied it
\* (variant: the event is never read)
LoopCondNoEvent(t, ts, given, tok) == t < ts
\* (variant: a tick may begin at the deadline itself)
LoopCondInclusive(t, ts, given, tok) == t <= ts /\ (~given \/ ~tok)
LoopCond(t, ts, given, tok) == t < ts /\ (~given \/ ~tok)

\* cpu_test.py:106-107
\* (variant: the sum is not divided by the number of cores)
SampleAvgSum(percents) ==
  IF percents # << >> THEN Frac(SumSeq(percents), 1) ELSE Zero
SampleAvg(percents) ==
  IF percents # << >> THEN Frac(SumSeq(percents), Len(percents)) ELSE Zero
Sample(percents, t) == [percpu |-> percents, avg |-> SampleAvg(percents), ts |-> t]

\* cpu_test.py:108-111, ram_test.py:90-93  progress_callback(sample): the
\* argument is the sample just appended
\* (variant: the callback is handed the first sample of the list)
CallbackArgFirst(ss) == ss[1]
CallbackArg(ss) == ss[Len(ss)]

\* cpu_test.py:115
ErrorSample(t) == [error |-> "e", ts |-> t]

\* cpu_test.py:119  Event.set()
\* (variant: the event is cleared, as at the end of a run that owns it)
EventClear(tok) == FALSE
\* (variant: a set that flips the flag)
EventToggle(tok) == ~tok
EventSet(tok) == TRUE

Alive(st) == st = "running"

\* cpu_test.py:128  Process.terminate(): SIGTERM ends a live worker when it takes effect
\* (variant: no signal is sent)
TerminateNoEffect(st, effective) == st
Terminate(st, effective) == IF Alive(st) /\ effective THEN "killed" ELSE st

\* cpu_test.py:134-135
PerCpuSamples(ss) == [i \in 1..Len(Filter(ss, "percpu")) |-> Filter(ss, "percpu")[i].percpu]
AvgSamples(ss) == [i \in 1..Len(Filter(ss, "avg")) |-> Filter(ss, "avg")[i].avg]

\* cpu_test.py:137-142
PerCoreAvg(pcs) ==
  IF pcs # << >>
  THEN [c \in 1..Len(pcs[1]) |->
          Frac(SumSeq([i \in 1..Len(pcs) |-> pcs[i][c]]), Len(pcs))]
  ELSE << >>

\* (variant of line 144: the sum is divided by the number of all entries)
OverallAvgOverAll(avgs) ==
  IF avgs # << >> THEN Frac(FracSum(avgs).num, FracSum(avgs).den * Len(samples)) ELSE Zero

\* cpu_test.py:144
OverallAvg(avgs) ==
  IF avgs # << >> THEN Frac(FracSum(avgs).num, FracSum(avgs).den * Len(avgs)) ELSE Zero

\* cpu_test.py:166  "samples_count": len(avg_samples)
\* (variant: error entries are counted too)
SamplesCountAll(ss) == Len(ss)
SamplesCount(ss) == Len(AvgSamples(ss))

\* cpu_test.py:146-158  max_temp: None (no sensors, or the read raised) or the maximum
TempOutcomes == {"none", "raise", "value"}
MaxTemp(outcome) == IF outcome = "value" THEN 55 ELSE -1

\* (variant of lines 160-169: the workers field is the number of processes)
CpuResultSpawnedCount(d, w, ss, temp) ==
  [status |-> "OK",
   duration |-> d,
   workers |-> Len(processes),
   avg_cpu_percent |-> OverallAvg(AvgSamples(ss)),
   per_cpu_percent |-> PerCoreAvg(PerCpuSamples(ss)),
   samples_count |-> SamplesCount(ss),
   max_temperature |-> MaxTemp(temp),
   samples |-> ss]

\* (variant of lines 160-169: a run without a temperature reading fails)
CpuResultSensorRequired(d, w, ss, temp) ==
  [status |-> IF temp = "value" THEN "OK" ELSE "FAIL",
   duration |-> d,
   workers |-> w,
   avg_cpu_percent |-> OverallAvg(AvgSamples(ss)),
   per_cpu_percent |-> PerCoreAvg(PerCpuSamples(ss)),
   samples_count |-> SamplesCount(ss),
   max_temperature |-> MaxTemp(temp),
   samples |-> ss]

\* (variant of lines 160-169: the status reports a set event)
CpuResultCancelAware(d, w, ss, temp) ==
  [status |-> IF stop_event /\ token THEN "CANCELLED" ELSE "OK",
   duration |-> d,
   workers |-> w,
   avg_cpu_percent |-> OverallAvg(AvgSamples(ss)),
   per_cpu_percent |-> PerCoreAvg(PerCpuSamples(ss)),
   samples_count |-> SamplesCount(ss),
   max_temperature |-> MaxTemp(temp),
   samples |-> ss]

\* cpu_test.py:160-169
CpuResult(d, w, ss, temp) ==
  [status |-> "OK",
   duration |-> d,
   workers |-> w,
   avg_cpu_percent |-> OverallAvg(AvgSamples(ss)),
   per_cpu_percent |-> PerCoreAvg(PerCpuSamples(ss)),
   samples_count |-> SamplesCount(ss),
   max_temperature |-> MaxTemp(temp),
   samples |-> ss]

\* The summary numbers of a result: lines 162-165 of the returned dict
Summary(r) ==
  [avg_cpu_percent |-> r.avg_cpu_percent,
   per_cpu_percent |-> r.per_cpu_percent,
   samples_count |-> r.samples_count,
   max_temperature |-> r.max_temperature]

\* What psutil.cpu_percent(percpu=True) can return: one reading per core
Readings == {<<0, 100>>, <<100, 100>>}

HasError(ss) == \E i \in 1..Len(ss) : "error" \in DOMAIN ss[i]

----------------------------------------------------------------------------
(* run_ram_test: pure parts *)

\* ram_test.py:45  chunk = max(1, int(chunk_mb)) * 1024 * 1024
\* (variant: the chunk size is not raised to one megabyte)
ChunkBytesNoFloor(c) == c * MiB
ChunkBytes(c) == Max(MinChunkMb, c) * MiB

\* ram_test.py:46  target_bytes = int(total_mb) * 1024 * 1024
RequestedBytes(t) == t * MiB

\* ram_test.py:50  safe_limit = int(mem.available * 0.75)
SafeLimit(avail) == (avail * 3) \div 4

\* ram_test.py:51-53
\* (variant: the request is never reduced)
NoClamp(target, limit) == target
ClampTarget(target, limit) == IF target > limit THEN limit ELSE target

\* ram_test.py:57  range(max(1, int(passes)))
PassCount(n) == Max(MinPasses, n)

\* ram_test.py:60  to_alloc = min(chunk, target_bytes - bytes_written)
\* (variant: the last chunk is not cut to the target)
ToAllocWholeChunk(c, target, written) == c
ToAlloc(c, target, written) == Min(c, target - written)

\* ram_test.py:65, 76, 103: the error strings, by what they carry
AllocError(offset) == [kind |-> "alloc", offset |-> offset]
\* (variant: the mismatch error carries the offset in megabytes)
MismatchErrorInMb(offset) == [kind |-> "mismatch", offset |-> offset \div MiB]
MismatchError(offset) == [kind |-> "mismatch", offset |-> offset]
ExceptionError == [kind |-> "exception", offset |-> -1]

\* ram_test.py:82-89
RamSample(pass, tested, size, t) ==
  [pass |-> pass + 1, tested |-> tested, chunk |-> size, timestamp |-> t]

\* (variant of line 108: a run that tested nothing does not pass)
RamStatusNeedsWork(errs) == IF errs = << >> /\ tested_bytes > 0 THEN "OK" ELSE "FAIL"

\* ram_test.py:108
RamStatus(errs) == IF errs = << >> THEN "OK" ELSE "FAIL"

\* ram_test.py:110-116
RamResult(tested, errs, ss) ==
  [status |-> RamStatus(errs), tested |-> tested, errors |-> errs, samples |-> ss]

\* What can happen to one chunk: written and verified, read back different,
\* bytearray(to_alloc) raising MemoryError (line 63), or _make_pattern raising it
\* (line 69, outside the inner try)
ChunkOutcomes == {"ok", "mismatch", "alloc_fail", "pattern_fail"}

\* main.py:878  the quick RAM test of the GUI: run_ram_quick_test(total_mb=64,
\* chunk_mb=16, passes=1), on a machine whose available memory does not clamp it
QuickTotalMb == 64
QuickChunkMb == 16
QuickPasses == 1
QuickAvailable == 128 * MiB

----------------------------------------------------------------------------
Init ==
  /\ kind \in {"CPU", "RAM"}
  /\ pc = "start"
  /\ progress_callback \in BOOLEAN
  /\ samples = << >>
  /\ result = NoResult
  /\ now = 0
  /\ stop_ts = 0
  /\ processes = << >>
  /\ sidx = 0
  /\ sstep = "none"
  /\ chunk = 0
  /\ target_bytes = 0
  /\ p = 0
  /\ bytes_written = 0
  /\ tested_bytes = 0
  /\ errors = << >>
  /\ IF kind = "CPU"
     THEN /\ duration \in 0..MaxDuration
          /\ workers \in {NoWorkers} \cup (-1..MaxWorkers)
          /\ sample_interval \in 1..MaxInterval
          /\ stop_event \in BOOLEAN
          /\ token \in (IF stop_event THEN BOOLEAN ELSE {FALSE})
          /\ total_mb = 0 /\ chunk_mb = 0 /\ passes = 0 /\ available = 0
     ELSE /\ \/ /\ total_mb \in -1..MaxTotalMb
                /\ chunk_mb \in 0..MaxChunkMb
                /\ passes \in 0..MaxPasses
                /\ available \in {0, MiB, 2 * MiB + 2, 4 * MiB}
             \/ /\ total_mb = QuickTotalMb
                /\ chunk_mb = QuickChunkMb
                /\ passes = QuickPasses
                /\ available = QuickAvailable
          /\ duration = 0 /\ workers = 0 /\ sample_interval = 1
          /\ stop_event \in BOOLEAN /\ token = FALSE
  /\ log = [cancel |-> NoCancel, set_again |-> FALSE, cb_raised |-> FALSE,
            stop_faults |-> {}, spawn_failed |-> FALSE, faults |-> 0,
            clamped |-> FALSE, chunks |-> 0, preset |-> token,
            late |-> FALSE, mismatched |-> << >>, cb_args |-> << >>,
            alloc_failed |-> << >>]

----------------------------------------------------------------------------
(* The caller: any thread holding the stop_event may set it, at any time and
   more than once *)

CallerSet ==
  /\ stop_event
  /\ pc \notin {"done", "raised"}
  /\ token' = EventSet(token)
  /\ log' = [log EXCEPT !.set_again = @ \/ token,
                        !.cancel = IF ~token /\ log.cancel = NoCancel
                                   THEN [at |-> now, n |-> Len(samples), pc |-> pc]
                                   ELSE @]
  /\ UNCHANGED <<kind, pc, progress_callback, samples, result, duration, workers,
                 sample_interval, stop_event, now, stop_ts, processes, sidx, sstep,
                 ramVars>>

----------------------------------------------------------------------------
(* _cpu_worker, cpu_test.py:58-62: one process per entry of processes *)

\* One evaluation of the loop condition of line 61, with the iteration of line 62
\* that follows it when the condition holds (x is local and not modelled); the
\* worker returns when the condition is false
WorkerIter(w) ==
  /\ w \in 1..Len(processes)
  /\ processes[w] = "running"
  /\ processes' = [processes EXCEPT ![w] =
                     IF WorkerCond(now, stop_ts, token) THEN "running" ELSE "exited"]
  /\ log' = [log EXCEPT !.late = @ \/ (WorkerCond(now, stop_ts, token)
                                        /\ (token \/ now >= stop_ts))]
  /\ UNCHANGED <<kind, pc, progress_callback, samples, result, duration, workers,
                 sample_interval, stop_event, token, now, stop_ts, sidx, sstep,
                 ramVars>>

----------------------------------------------------------------------------
(* run_cpu_test, cpu_test.py:84-169 *)

\* lines 84-95: resolve workers, compute the deadline, choose the event
CpuStart ==
  /\ kind = "CPU" /\ pc = "start"
  /\ workers' = ResolveWorkers(workers)
  /\ stop_ts' = Deadline(now, duration)
  /\ pc' = "spawn"
  /\ UNCHANGED <<kind, progress_callback, samples, result, duration, sample_interval,
                 stop_event, token, now, processes, sidx, sstep, ramVars, log>>

\* lines 96-100: one iteration of the spawn loop; Process.start() may raise,
\* and nothing catches it
CpuSpawn ==
  /\ kind = "CPU" /\ pc = "spawn"
  /\ IF Len(processes) < workers
     THEN \E started \in BOOLEAN :
            IF started
            THEN /\ processes' = Append(processes, "running")
                 /\ UNCHANGED <<pc, log>>
            ELSE /\ log.faults < MaxFaults
                 /\ pc' = "raised"
                 /\ log' = [log EXCEPT !.spawn_failed = TRUE, !.faults = @ + 1]
                 /\ UNCHANGED processes
     ELSE /\ pc' = "loop"
          /\ UNCHANGED <<processes, log>>
  /\ UNCHANGED <<kind, progress_callback, samples, result, duration, workers,
                 sample_interval, stop_event, token, now, stop_ts, sidx, sstep, ramVars>>

\* line 104: the while condition
CpuLoop ==
  /\ kind = "CPU" /\ pc = "loop"
  /\ pc' = IF LoopCond(now, stop_ts, stop_event, token) THEN "measure" ELSE "set"
  /\ UNCHANGED <<kind, progress_callback, samples, result, cpuVars, ramVars, log>>

\* lines 105-108 and 114-115: cpu_percent blocks for sample_interval, then the
\* sample is appended; an exception leaves the loop through the outer except
\* (variant: the except is inside the loop, which goes on)
MeasureErrorContinue(t) == [samples |-> Append(samples, ErrorSample(t)), pc |-> "loop"]
\* (variant: the error entry replaces the samples taken so far)
MeasureErrorReplaces(t) == [samples |-> <<ErrorSample(t)>>, pc |-> "set"]
MeasureError(t) == [samples |-> Append(samples, ErrorSample(t)), pc |-> "set"]

CpuMeasure ==
  /\ kind = "CPU" /\ pc = "measure"
  /\ now' = now + sample_interval
  /\ \/ \E percents \in Readings :
          /\ samples' = Append(samples, Sample(percents, now'))
          /\ pc' = IF progress_callback THEN "callback" ELSE "loop"
          /\ UNCHANGED log
     \/ /\ log.faults < MaxFaults
        /\ samples' = MeasureError(now').samples
        /\ pc' = MeasureError(now').pc
        /\ log' = [log EXCEPT !.faults = @ + 1]
  /\ UNCHANGED <<kind, progress_callback, result, duration, workers, sample_interval,
                 stop_event, token, stop_ts, processes, sidx, sstep, ramVars>>

\* lines 109-113: the callback's exception is swallowed at the call site
\* (variant: no try around the call, the exception reaches the outer except)
CallbackRaiseEscapes(raised) ==
  IF raised
  THEN [samples |-> Append(samples, ErrorSample(now)), pc |-> "set"]
  ELSE [samples |-> samples, pc |-> "loop"]
CallbackOutcome(raised) == [samples |-> samples, pc |-> "loop"]

CpuCallback ==
  /\ kind = "CPU" /\ pc = "callback"
  /\ \E raised \in BOOLEAN :
       /\ samples' = CallbackOutcome(raised).samples
       /\ pc' = CallbackOutcome(raised).pc
       /\ log' = [log EXCEPT !.cb_raised = @ \/ raised,
                             !.cb_args = Append(@, CallbackArg(samples))]
  /\ UNCHANGED <<kind, progress_callback, result, cpuVars, ramVars>>

\* lines 117-121: the run's own set of the event
CpuSet ==
  /\ kind = "CPU" /\ pc = "set"
  /\ token' = EventSet(token)
  /\ IF processes = << >>
     THEN pc' = "aggregate" /\ UNCHANGED <<sidx, sstep>>
     ELSE pc' = "stop" /\ sidx' = 1 /\ sstep' = "is_alive"
  /\ UNCHANGED <<kind, progress_callback, samples, result, duration, workers,
                 sample_interval, stop_event, now, stop_ts, processes, ramVars, log>>

\* (variant of line 123: the loop is left after its first worker)
NextWorkerBreak ==
  pc' = "aggregate" /\ UNCHANGED sidx /\ sstep' = "none"

\* line 123: the for loop goes to the next worker, or ends
NextWorker ==
  IF sidx = Len(processes)
  THEN pc' = "aggregate" /\ UNCHANGED sidx /\ sstep' = "none"
  ELSE pc' = "stop" /\ sidx' = sidx + 1 /\ sstep' = "is_alive"

\* (variant of lines 130-131: the exception leaves run_cpu_test)
StopRaiseEscapes ==
  /\ log.faults < MaxFaults
  /\ pc' = "raised" /\ UNCHANGED <<sidx, sstep>>
  /\ log' = [log EXCEPT !.stop_faults = @ \cup {sidx}, !.faults = @ + 1]

\* lines 130-131: an exception of is_alive, join or terminate is swallowed
StopRaise ==
  /\ log.faults < MaxFaults
  /\ NextWorker
  /\ log' = [log EXCEPT !.stop_faults = @ \cup {sidx}, !.faults = @ + 1]

\* line 125
StopIsAlive ==
  /\ kind = "CPU" /\ pc = "stop" /\ sstep = "is_alive"
  /\ \/ StopRaise
     \/ /\ IF Alive(processes[sidx])
           THEN sstep' = "join" /\ UNCHANGED <<pc, sidx>>
           ELSE NextWorker
        /\ UNCHANGED log
  /\ UNCHANGED <<kind, progress_callback, samples, result, duration, workers,
                 sample_interval, stop_event, token, now, stop_ts, processes, ramVars>>

\* line 126: join(timeout=1) returns when the worker has exited, or after 1s
StopJoin ==
  /\ kind = "CPU" /\ pc = "stop" /\ sstep = "join"
  /\ \/ StopRaise /\ UNCHANGED now
     \/ /\ sstep' = "is_alive2"
        /\ now' = IF Alive(processes[sidx]) THEN now + JoinTimeout ELSE now
        /\ UNCHANGED <<pc, sidx, log>>
  /\ UNCHANGED <<kind, progress_callback, samples, result, duration, workers,
                 sample_interval, stop_event, token, stop_ts, processes, ramVars>>

\* line 127
StopIsAlive2 ==
  /\ kind = "CPU" /\ pc = "stop" /\ sstep = "is_alive2"
  /\ \/ StopRaise
     \/ /\ IF Alive(processes[sidx])
           THEN sstep' = "terminate" /\ UNCHANGED <<pc, sidx>>
           ELSE NextWorker
        /\ UNCHANGED log
  /\ UNCHANGED <<kind, progress_callback, samples, result, duration, workers,
                 sample_interval, stop_event, token, now, stop_ts, processes, ramVars>>

\* line 128: SIGTERM is sent; a worker that inherited a handler or is stopped
\* may outlive it
StopTerminate ==
  /\ kind = "CPU" /\ pc = "stop" /\ sstep = "terminate"
  /\ \/ StopRaise /\ UNCHANGED processes
     \/ \E effective \in BOOLEAN :
          /\ ~effective => Alive(processes[sidx]) /\ log.faults < MaxFaults
          /\ processes' = [processes EXCEPT ![sidx] = Terminate(@, effective)]
          /\ log' = IF effective THEN log
                    ELSE [log EXCEPT !.stop_faults = @ \cup {sidx}, !.faults = @ + 1]
          /\ sstep' = "join2"
          /\ UNCHANGED <<pc, sidx>>
  /\ UNCHANGED <<kind, progress_callback, samples, result, duration, workers,
                 sample_interval, stop_event, token, now, stop_ts, ramVars>>

\* line 129
StopJoin2 ==
  /\ kind = "CPU" /\ pc = "stop" /\ sstep = "join2"
  /\ \/ StopRaise /\ UNCHANGED now
     \/ /\ NextWorker
        /\ now' = IF Alive(processes[sidx]) THEN now + JoinTimeout ELSE now
        /\ UNCHANGED log
  /\ UNCHANGED <<kind, progress_callback, samples, result, duration, workers,
                 sample_interval, stop_event, token, stop_ts, processes, ramVars>>

\* lines 133-169: aggregate and return
CpuAggregate ==
  /\ kind = "CPU" /\ pc = "aggregate"
  /\ \E temp \in TempOutcomes : result' = CpuResult(duration, workers, samples, temp)
  /\ pc' = "done"
  /\ UNCHANGED <<kind, progress_callback, samples, cpuVars, ramVars, log>>

CpuNext ==
  \/ CpuStart \/ CpuSpawn \/ CpuLoop \/ CpuMeasure \/ CpuCallback \/ CpuSet
  \/ StopIsAlive \/ StopJoin \/ StopIsAlive2 \/ StopTerminate \/ StopJoin2
  \/ CpuAggregate

----------------------------------------------------------------------------
(* run_ram_test, ram_test.py:29-116 *)

\* lines 41-55
RamStart ==
  /\ kind = "RAM" /\ pc = "start"
  /\ chunk' = ChunkBytes(chunk_mb)
  /\ target_bytes' = ClampTarget(RequestedBytes(total_mb), SafeLimit(available))
  /\ p' = 0
  /\ pc' = "ram_pass"
  /\ log' = [log EXCEPT !.clamped = RequestedBytes(total_mb) > SafeLimit(available)]
  /\ UNCHANGED <<kind, progress_callback, samples, result, cpuVars, total_mb, chunk_mb,
                 passes, available, bytes_written, tested_bytes, errors>>

\* lines 57-58: the for loop starts the next pass, or ends
RamPass ==
  /\ kind = "RAM" /\ pc = "ram_pass"
  /\ IF p < PassCount(passes)
     THEN bytes_written' = 0 /\ pc' = "ram_chunk"
     ELSE pc' = "ram_finish" /\ UNCHANGED bytes_written
  /\ UNCHANGED <<kind, progress_callback, samples, result, cpuVars, total_mb, chunk_mb,
                 passes, available, chunk, target_bytes, p, tested_bytes, errors, log>>

\* line 66: break leaves the while loop of the pass; the for loop goes on
\* (variant: the failure ends the run)
AfterAllocFailEndsRun == [p |-> p, pc |-> "ram_finish"]
AfterAllocFail == [p |-> p + 1, pc |-> "ram_pass"]

\* lines 59-90: the while condition and one chunk, up to the append of its sample
RamChunk ==
  /\ kind = "RAM" /\ pc = "ram_chunk"
  /\ IF bytes_written < target_bytes
     THEN \E outcome \in ChunkOutcomes :
            /\ outcome # "ok" => log.faults < MaxFaults
            /\ log' = [log EXCEPT !.faults = IF outcome # "ok" THEN @ + 1 ELSE @,
                                  !.chunks = IF outcome \in {"ok", "mismatch"}
                                             THEN @ + 1 ELSE @,
                                  !.mismatched = IF outcome = "mismatch"
                                                 THEN Append(@, bytes_written) ELSE @,
                                  !.alloc_failed =
                                     IF outcome = "alloc_fail"
                                     THEN Append(@, [pass |-> p + 1,
                                                     offset |-> bytes_written])
                                     ELSE @]
            /\ CASE outcome = "alloc_fail" ->
                      /\ errors' = Append(errors, AllocError(bytes_written))
                      /\ p' = AfterAllocFail.p
                      /\ pc' = AfterAllocFail.pc
                      /\ UNCHANGED <<bytes_written, tested_bytes, samples>>
                 [] outcome = "pattern_fail" ->
                      /\ errors' = Append(errors, ExceptionError)
                      /\ pc' = "ram_finish"
                      /\ UNCHANGED <<p, bytes_written, tested_bytes, samples>>
                 [] OTHER ->
                      LET to_alloc == ToAlloc(chunk, target_bytes, bytes_written) IN
                      /\ errors' = IF outcome = "mismatch"
                                   THEN Append(errors, MismatchError(bytes_written))
                                   ELSE errors
                      /\ bytes_written' = bytes_written + to_alloc
                      /\ tested_bytes' = bytes_written'
                      /\ samples' = Append(samples,
                                           RamSample(p, tested_bytes', to_alloc, now))
                      /\ pc' = IF progress_callback THEN "ram_callback" ELSE "ram_chunk"
                      /\ UNCHANGED p
     ELSE /\ p' = p + 1
          /\ pc' = "ram_pass"
          /\ UNCHANGED <<bytes_written, tested_bytes, samples, errors, log>>
  /\ UNCHANGED <<kind, progress_callback, result, cpuVars, total_mb, chunk_mb, passes,
                 available, chunk, target_bytes>>

\* lines 91-95: the callback's exception is swallowed at the call site
\* (variant: no try around the call, the exception reaches the outer except)
RamCallbackRaiseEscapes(raised) ==
  IF raised
  THEN [errors |-> Append(errors, ExceptionError), pc |-> "ram_finish"]
  ELSE [errors |-> errors, pc |-> "ram_chunk"]
RamCallbackOutcome(raised) == [errors |-> errors, pc |-> "ram_chunk"]

RamCallback ==
  /\ kind = "RAM" /\ pc = "ram_callback"
  /\ \E raised \in BOOLEAN :
       /\ errors' = RamCallbackOutcome(raised).errors
       /\ pc' = RamCallbackOutcome(raised).pc
       /\ log' = [log EXCEPT !.cb_raised = @ \/ raised,
                             !.cb_args = Append(@, CallbackArg(samples))]
  /\ UNCHANGED <<kind, progress_callback, samples, result, cpuVars, total_mb, chunk_mb,
                 passes, available, chunk, target_bytes, p, bytes_written, tested_bytes>>

\* lines 105-116
RamFinish ==
  /\ kind = "RAM" /\ pc = "ram_finish"
  /\ result' = RamResult(tested_bytes, errors, samples)
  /\ pc' = "done"
  /\ UNCHANGED <<kind, progress_callback, samples, cpuVars, ramVars, log>>

RamNext == RamStart \/ RamPass \/ RamChunk \/ RamCallback \/ RamFinish

Next ==
  \/ CallerSet
  \/ \E w \in 1..Len(processes) : WorkerIter(w)
  \/ CpuNext
  \/ RamNext

Spec == Init /\ [][Next]_vars

\* The indices a worker process can have
Workers == 1..Max(NumCores, MaxWorkers)

\* Fair scheduling of the worker processes: a worker whose loop condition is
\* false does get to evaluate it.  Nothing is assumed of the coordinator.
FairSpec == Spec /\ \A w \in Workers : WF_vars(WorkerIter(w))

----------------------------------------------------------------------------
(* Statements about the runs *)

Returned == pc = "done"
Sampling == pc \in {"loop", "measure", "callback"}
PastSpawn == pc \in {"loop", "measure", "callback", "set", "stop", "aggregate", "done"}
Cancelled == log.cancel # NoCancel
IsError(s) == "error" \in DOMAIN s

\* The number of ticks of a run that nothing interrupts: ceil(max(1, duration) / interval)
FullCount == (Max(MinDuration, duration) + sample_interval - 1) \div sample_interval

\* 1 when a measurement was in progress at the moment the caller set the event
InFlight == IF log.cancel.pc = "measure" THEN 1 ELSE 0

C2_TestedWithinClampedTarget ==
  (kind = "RAM" /\ pc # "start" /\ (log.clamped \/ total_mb >= 0)) =>
     /\ log.clamped => target_bytes = SafeLimit(available)
     /\ bytes_written <= target_bytes
     /\ tested_bytes <= target_bytes
     /\ \A i \in 1..Len(samples) : samples[i].tested <= target_bytes
     /\ Returned => result.tested <= target_bytes

C2_Witness ==
  /\ kind = "RAM" /\ Returned /\ log.clamped
  /\ RequestedBytes(total_mb) = 2 * MiB
  /\ target_bytes = 1572865
  /\ result.tested = target_bytes
  /\ Len(samples) >= 2

\* C3: the returned status is FAIL exactly when an error was recorded during the
\* run (CPU: an error entry in the samples; RAM: a non-empty error list).
C3_StatusFollowsErrors ==
  Returned =>
    (result.status = "FAIL" <=>
       IF kind = "CPU" THEN HasError(samples) ELSE errors # << >>)

\* C4: neither function ends by raising, and a failure to spawn a worker gives a
\* result with status FAIL.
C4_NeverRaises ==
  /\ pc # "raised"
  /\ (log.spawn_failed /\ Returned) => result.status = "FAIL"

\* C5 (as stated): an exception inside a tick, from the measurement or from the
\* callback, appends an {error, ts} entry and the loop goes on to its next check.
C5_ErrorEntryAndContinue ==
  [][/\ (pc = "measure" /\ pc' # pc /\ IsError(samples'[Len(samples')])) =>
          pc' = "loop"
     /\ (pc = "callback" /\ log'.cb_raised /\ ~log.cb_raised) =>
          /\ samples' = Append(samples, ErrorSample(now'))
          /\ pc' = "loop"]_vars

\* C5 (amended): an exception of the measurement call appends one {error, ts}
\* entry and ends the sampling loop (no tick follows an error entry); an exception
\* of the callback appends nothing and the loop goes on to its next check.
C5_MeasureErrorEndsLoop ==
  /\ [](HasError(samples) => ~Sampling /\ IsError(samples[Len(samples)]))
  /\ [][/\ (pc = "measure" /\ pc' # pc /\ IsError(samples'[Len(samples')])) =>
             /\ samples' = Append(samples, ErrorSample(now'))
             /\ pc' = "set"
        /\ (pc = "callback" /\ pc' # pc) =>
             /\ samples' = samples
             /\ pc' = "loop"]_vars

C5_Witness ==
  /\ kind = "CPU" /\ pc = "set" /\ ~token
  /\ Len(samples) = 1 /\ IsError(samples[1])
  /\ now < stop_ts

\* C6: a step of the progress callback, raising or not, changes nothing of the
\* run but its position: samples, errors, event, workers and clock are as with a
\* callback that returns, in CPU and RAM runs alike.
C6_CallbackCannotChangeRun ==
  [][/\ (pc = "callback" /\ pc' # pc) =>
          /\ pc' = "loop"
          /\ UNCHANGED <<samples, result, cpuVars, ramVars>>
     /\ (pc = "ram_callback" /\ pc' # pc) =>
          /\ pc' = "ram_chunk"
          /\ UNCHANGED <<samples, result, cpuVars, ramVars>>]_vars

C6_Witness ==
  /\ Returned /\ log.cb_raised /\ result.status = "OK" /\ Len(samples) >= 2
  /\ \A i \in 1..Len(samples) : ~IsError(samples[i])

\* C7 (as stated): a CPU run whose stop_event the caller set while it was
\* sampling, and in which no measurement failed, returns with fewer samples than
\* the uninterrupted run.
C7_FewerSamplesThanFull ==
  (/\ kind = "CPU" /\ Returned /\ Cancelled /\ ~HasError(samples)
   /\ log.cancel.pc \in {"loop", "measure", "callback"})
     => Len(samples) < FullCount

\* C7 (amended): once the caller has set the stop_event no new tick begins: at
\* most the tick in flight is appended; the run returns within one sampling
\* interval plus two join timeouts per worker; it has no more samples than the
\* uninterrupted run, and fewer when the deadline is not yet reached at the end
\* of the tick in flight.
C7_NoTickAfterCancel ==
  (kind = "CPU" /\ Cancelled) =>
     /\ Len(samples) <= log.cancel.n + InFlight
     /\ Len(samples) <= FullCount
     /\ pc = "measure" => log.cancel.pc = "measure" /\ Len(samples) = log.cancel.n
     /\ Returned =>
          /\ now <= log.cancel.at + sample_interval + 2 * JoinTimeout * Len(processes)
          /\ (log.cancel.n + InFlight) * sample_interval < stop_ts =>
                Len(samples) < FullCount

C7_Witness ==
  /\ kind = "CPU" /\ Returned /\ Cancelled /\ log.cancel.pc = "measure"
  /\ Len(samples) = log.cancel.n + 1
  /\ Len(samples) < FullCount
  /\ Len(processes) >= 1

\* C8: a RAM run observes the cancellation token: after the token is set at most
\* the chunk in flight is processed, and no further chunk.
C8_RamStopsOnToken ==
  (kind = "RAM" /\ Cancelled) => Len(samples) <= log.cancel.n + 1

\* C9: a CPU run that collected no valid sample returns overall average 0.0, no
\* per-core average, samples_count 0, and status OK when no error was recorded.
C9_EmptyAggregation ==
  (kind = "CPU" /\ Returned /\ \A i \in 1..Len(samples) : IsError(samples[i])) =>
     /\ result.avg_cpu_percent = Zero
     /\ result.per_cpu_percent = << >>
     /\ result.samples_count = 0
     /\ samples = << >> => result.status = "OK"

C9_Witness ==
  /\ kind = "CPU" /\ Returned /\ samples = << >> /\ token /\ stop_event
  /\ log.cancel.pc \in {"none", "start", "spawn"}
  /\ result.samples_count = 0 /\ result.status = "OK"

\* C10: a set of the event that finds it set changes nothing: the event stays
\* set once set, and a repeated set by the caller leaves the workers, the samples,
\* the result and the position of the run as they were.
C10_SetIdempotent ==
  /\ [][token => token']_vars
  /\ [][(log'.set_again # log.set_again) =>
          UNCHANGED <<kind, pc, progress_callback, samples, result, cpuVars, ramVars>>]_vars
  /\ [][(pc = "set" /\ pc' # pc /\ token) =>
          UNCHANGED <<token, processes, samples, result, now>>]_vars

C10_Witness ==
  /\ kind = "CPU" /\ Returned /\ log.set_again /\ log.cancel.pc = "measure"
  /\ Len(processes) >= 1

\* The summary numbers of a second run that collected the same samples and
\* aggregates them (lines 134-158) on a machine that reports no temperature
TwinSummary == Summary(CpuResult(duration, workers, samples, "none"))

\* C11 (as stated): two CPU runs that collected the identical error-free sample
\* sequence return identical summary numbers (overall average, per-core averages,
\* samples_count and the temperature summary), whatever the environment is when
\* they aggregate: here this run and the second run of TwinSummary.
C11_SameSamplesSameSummary ==
  (kind = "CPU" /\ Returned /\ samples # << >> /\ ~HasError(samples)) =>
     Summary(result) = TwinSummary

\* The event was not set when the run began and the caller never set it
Uncancelled == ~log.preset /\ ~Cancelled

\* A quotient that lies in [0, 100]
InPercentRange(f) == f.num >= 0 /\ f.num <= 100 * f.den

\* ceil(D / I) + 1 for the run's duration and interval, as requested
TickBound == ((duration + sample_interval - 1) \div sample_interval) + 1

MismatchOffsets(errs) ==
  [i \in 1..Len(SelectSeq(errs, LAMBDA e : e.kind = "mismatch")) |->
     SelectSeq(errs, LAMBDA e : e.kind = "mismatch")[i].offset]

\* The run of the quick RAM test: 64 MB in chunks of 16 MB, one pass
QuickRun ==
  kind = "RAM" /\ total_mb = QuickTotalMb /\ chunk_mb = QuickChunkMb /\ passes = QuickPasses

\* C13: in a RAM run every chunk whose read-back differs adds exactly one error
\* carrying the chunk's starting byte offset (log.mismatched lists those chunks);
\* the chunk still counts and its sample is emitted; when mismatches are the only
\* faults every pass goes on to the target; the result is FAIL with as many
\* mismatch errors as mismatching chunks.  In the 64MB/16MB/1-pass run a single
\* mismatch at offset 0 gives exactly one error, with offset 0, and tested <= 64 MB.
C13_MismatchRecordedRunContinues ==
  kind = "RAM" =>
    /\ MismatchOffsets(errors) = log.mismatched
    /\ Len(samples) = log.chunks
    /\ Returned =>
         /\ result.errors = errors
         /\ log.mismatched # << >> => result.status = "FAIL"
         /\ (Len(errors) = Len(log.mismatched) /\ target_bytes > 0) =>
               /\ result.tested = target_bytes
               /\ SumSeq([i \in 1..Len(result.samples) |-> result.samples[i].chunk])
                    = target_bytes * PassCount(passes)
         /\ (QuickRun /\ log.mismatched = <<0>> /\ log.faults = 1) =>
               /\ result.errors = <<MismatchError(0)>>
               /\ result.status = "FAIL"
               /\ result.tested <= QuickTotalMb * MiB

C13_Witness ==
  /\ QuickRun /\ Returned /\ log.mismatched = <<0>> /\ log.faults = 1
  /\ Len(result.samples) = 4 /\ result.tested = QuickTotalMb * MiB

\* C14 (as stated): the tested size returned by a RAM run equals the bytes written
\* and verified summed over all chunks of all passes; with k passes and no failure
\* that is k times the clamped target.
C14_TestedIsSumOverPasses ==
  (kind = "RAM" /\ Returned /\ errors = << >> /\ target_bytes > 0) =>
     /\ result.tested =
          SumSeq([i \in 1..Len(result.samples) |-> result.samples[i].chunk])
     /\ result.tested = PassCount(passes) * target_bytes

\* The caller's set of the event ended the sampling: it came before the sampling
\* loop was over
CancelledWhileSampling ==
  Cancelled /\ log.cancel.pc \in {"start", "spawn", "loop", "measure", "callback"}

\* C15: the status of a CPU run does not depend on cancellation.  A run whose
\* event was set at the call or by the caller, with no recorded error, returns OK,
\* and its result aggregates exactly the samples taken until the cancellation took
\* effect: those present when the event was set, and the one being measured then.
C15_CancelledCleanRunIsOk ==
  (kind = "CPU" /\ Returned /\ (Cancelled \/ log.preset) /\ ~HasError(samples)) =>
     /\ result.status = "OK"
     /\ result.samples = samples
     /\ result.samples_count = Len(samples)
     /\ result.avg_cpu_percent = OverallAvg(AvgSamples(samples))
     /\ log.preset => samples = << >>
     /\ CancelledWhileSampling => Len(samples) <= log.cancel.n + InFlight
     /\ CancelledWhileSampling => Len(samples) >= log.cancel.n

C15_Witness ==
  /\ kind = "CPU" /\ Returned /\ CancelledWhileSampling /\ ~HasError(samples)
  /\ Len(samples) >= 1 /\ Len(samples) < FullCount
  /\ result.status = "OK" /\ result.samples_count = Len(samples)

\* C16 (as stated): the result of a CPU run reports the values the run used: its
\* workers field equals the number of workers spawned, and its duration field
\* equals the duration the deadline was computed from (the run starts at time 0,
\* so that is the deadline itself); the tested size of a RAM run is bounded by
\* the clamped target.
C16_ResultReportsValuesUsed ==
  Returned =>
    IF kind = "CPU"
    THEN /\ result.workers = Len(processes)
         /\ result.duration = stop_ts
    ELSE result.tested <= Max(target_bytes, 0)

\* What holds in every state of the shutdown of a CPU run
ShutdownState ==
  kind = "CPU" =>
    /\ pc \in {"stop", "aggregate", "done"} => token
    /\ pc = "stop" =>
         \A w \in 1..(sidx - 1) : w \notin log.stop_faults => ~Alive(processes[w])
    /\ pc \in {"aggregate", "done"} =>
         /\ sidx = Len(processes) /\ sstep = "none"
         /\ \A w \in 1..Len(processes) :
               w \notin log.stop_faults => ~Alive(processes[w])
    /\ (result # NoResult) <=> (pc = "done")
    /\ pc = "done" => result.samples = samples

\* What holds of every step of a CPU run
ShutdownStep ==
  kind = "CPU" =>
    /\ pc' # pc =>
         /\ pc' = "set" => pc \in {"loop", "measure"}
         /\ pc' = "stop" => pc = "set"
         /\ pc' = "aggregate" => pc \in {"set", "stop"}
         /\ pc' = "done" => pc = "aggregate"
    /\ sstep' # sstep => token'
    /\ pc \in {"set", "stop", "aggregate", "done"} => samples' = samples

\* C17: every CPU run, whether its sampling loop ended by the deadline, by the
\* event or by a caught exception, shuts down in the same order: the event is set
\* before the stop step of any worker; the stop step (found exited, joined, or
\* terminated) has been carried out for every worker before aggregation starts,
\* and every worker whose step no exception cut short is no longer running then;
\* the result exists only once aggregation is over; no sample is appended once the
\* sampling loop has handed over to the shutdown.
C17_ShutdownOrder == []ShutdownState /\ [][ShutdownStep]_vars

\* A run with two workers whose loop was ended by a caught exception
C17_Witness ==
  /\ kind = "CPU" /\ Returned /\ Len(processes) = 2 /\ sidx = 2
  /\ HasError(samples) /\ token /\ result.samples = samples

\* Worker w exists and has neither returned nor been terminated
Running(w) == w <= Len(processes) /\ Alive(processes[w])

\* The condition of line 61 is false: the event is set or the deadline has passed
MustExit == token \/ now >= stop_ts

\* C18 (as stated): every worker exits on its own, without forced termination.
C18_NoForcedTermination ==
  \A w \in 1..Len(processes) : processes[w] # "killed"

\* What holds of every step of the workers: a worker returns only at a check
\* that finds the event set or the deadline passed, and is terminated only by
\* the stop step, when its join has timed out
WorkerStep ==
  \A w \in 1..Len(processes) :
    /\ (processes[w] = "running" /\ processes'[w] = "exited") => MustExit
    /\ (processes[w] = "running" /\ processes'[w] = "killed") =>
         (pc = "stop" /\ sstep = "terminate" /\ sidx = w /\ token)

\* C18: every worker checks the deadline and the event once per iteration: no
\* worker begins an iteration at a check where the event is set or the deadline
\* has passed (log.late), a worker returns only at such a check, and under fair
\* scheduling every worker that is running when either holds stops running: it
\* returns at its next check, unless the stop step terminates it first, after a
\* join that timed out.
C18_WorkersStop ==
  /\ [](~log.late)
  /\ [][WorkerStep]_vars
  /\ \A w \in Workers : (Running(w) /\ MustExit) ~> ~Running(w)

\* A worker that returned at its own check, and one the stop step terminated
C18_Witness ==
  /\ kind = "CPU" /\ Len(processes) = 2
  /\ processes[1] = "exited" /\ processes[2] = "killed"
  /\ token /\ now < stop_ts

\* C19 (as stated): the deadline of a CPU run equals its start time, 0, plus the
\* requested duration.
C19_DeadlineIsStartPlusDuration ==
  (kind = "CPU" /\ pc # "start") => stop_ts = duration

\* What holds of the deadline in every state of a CPU run: it is the start time,
\* 0, plus the requested duration raised to one second; it is computed before
\* any worker exists
DeadlineState ==
  kind = "CPU" =>
    /\ pc = "start" => processes = << >>
    /\ pc # "start" => stop_ts = IF duration >= 1 THEN duration ELSE 1
    /\ ~log.late

\* What holds of the deadline in every step: once computed it does not change,
\* and a tick of the sampling loop begins only before it
DeadlineStep ==
  kind = "CPU" =>
    /\ duration' = duration
    /\ pc # "start" => stop_ts' = stop_ts
    /\ (pc = "loop" /\ pc' = "measure") => now < stop_ts
    /\ Len(samples') > Len(samples) => now < stop_ts

\* C19: the deadline of a CPU run equals the start time plus max(1, requested
\* duration), is computed once before workers start, is the one value the workers
\* and the sampling loop read, and never changes; no sampling tick and no worker
\* iteration begins at or after it.
C19_DeadlineFixed == []DeadlineState /\ [][DeadlineStep]_vars

\* A run asked for 0 seconds that ran to its deadline of 1 second
C19_Witness ==
  /\ kind = "CPU" /\ Returned /\ duration = 0 /\ stop_ts = 1 /\ now >= stop_ts
  /\ Len(processes) >= 1 /\ Len(samples) = 1 /\ ~HasError(samples)

\* The timestamp of an entry of the sample sequence, of either kind of run
TimeOf(s) == IF "timestamp" \in DOMAIN s THEN s.timestamp ELSE s.ts

\* Timestamps do not decrease along the sample sequence
SamplesInTimeOrder ==
  \A i \in 1..Len(samples) : \A j \in i..Len(samples) :
    TimeOf(samples[i]) <= TimeOf(samples[j])

\* What holds of every step: the sample sequence changes only by the
\* coordinator's append at a tick or a chunk, which keeps every earlier entry;
\* the list of worker handles changes only by the coordinator's append at the
\* spawn; a step in which a worker returns writes neither
SingleProducerStep ==
  /\ samples' # samples =>
       /\ pc \in {"measure", "ram_chunk"}
       /\ Len(samples') = Len(samples) + 1
       /\ SubSeq(samples', 1, Len(samples)) = samples
  /\ Len(processes') # Len(processes) =>
       /\ pc = "spawn"
       /\ Len(processes') = Len(processes) + 1
  /\ \A w \in 1..Len(processes) :
       (processes[w] = "running" /\ processes'[w] = "exited") =>
          /\ samples' = samples
          /\ Len(processes') = Len(processes)
          /\ \A v \in 1..Len(processes) : v # w => processes'[v] = processes[v]
          /\ token' = token
  /\ token' # token => (pc = "set" \/ stop_event)

\* C20: the sample sequence of a run is append-only with a single producer: only
\* the coordinator appends to it, workers write neither it nor the worker handles,
\* appended entries are never removed, reordered or changed, and timestamps are
\* non-decreasing along it; the event is written by the caller and the coordinator.
C20_AppendOnlySingleProducer == []SamplesInTimeOrder /\ [][SingleProducerStep]_vars

\* A run whose event both the caller and the coordinator have set, with samples
\* of two different times and a worker that returned
C20_Witness ==
  /\ kind = "CPU" /\ Returned /\ Cancelled /\ log.set_again
  /\ Len(samples) >= 2 /\ TimeOf(samples[1]) < TimeOf(samples[2])
  /\ \E w \in 1..Len(processes) : processes[w] = "exited"

\* The entries of a sample sequence that are samples proper, not error entries
RECURSIVE ValidSamples(_)
ValidSamples(ss) ==
  IF ss = << >> THEN << >>
  ELSE IF IsError(Head(ss)) THEN ValidSamples(Tail(ss))
       ELSE <<Head(ss)>> \o ValidSamples(Tail(ss))

\* The sample sequence without the sample whose callback is still to come
Delivered(ss) ==
  IF pc \in {"callback", "ram_callback"} THEN SubSeq(ss, 1, Len(ss) - 1) ELSE ss

\* C21 (as stated): with a callback supplied, the sequence of callback arguments
\* (log.cb_args) of a finished run equals the run's sample sequence.
C21_CallbackArgsAreSamples ==
  (Returned /\ progress_callback) => log.cb_args = result.samples

\* C21: with a callback supplied, it is invoked exactly once for each sample the
\* loop measured, with that sample, in the order of appending, after the append
\* and before the next tick or chunk begins: outside the callback step the
\* callback arguments are the sample sequence without its error entries, and in
\* the callback step all of it but the sample just appended.  Without a callback
\* nothing is invoked.
C21_CallbackOncePerMeasuredSample ==
  /\ progress_callback => log.cb_args = ValidSamples(Delivered(samples))
  /\ ~progress_callback => log.cb_args = << >>
  /\ pc \in {"callback", "ram_callback"} =>
       (progress_callback /\ samples # << >> /\ ~IsError(samples[Len(samples)]))

\* A CPU run with a callback whose second measurement raised: one callback, two
\* entries
C21_Witness ==
  /\ kind = "CPU" /\ Returned /\ progress_callback
  /\ Len(samples) = 2 /\ IsError(samples[2]) /\ Len(log.cb_args) = 1
  /\ log.cb_args[1] = samples[1]

\* The offsets carried by the allocation errors of a list of errors, in order
AllocOffsets(errs) ==
  [i \in 1..Len(SelectSeq(errs, LAMBDA e : e.kind = "alloc")) |->
     SelectSeq(errs, LAMBDA e : e.kind = "alloc")[i].offset]

\* No exception left the loops of the RAM run through the outer except
NoEscapedException == \A i \in 1..Len(errors) : errors[i].kind # "exception"

\* C22: when a buffer allocation fails in pass p of a RAM run at byte offset b
\* (log.alloc_failed lists the failures), exactly one error naming b is recorded,
\* no further chunk is processed in pass p (every sample of pass p lies at or
\* before b, and a pass fails at most once), every remaining pass is still
\* started (a run that no exception cut short has been through all its passes),
\* and the final status is FAIL.
C22_AllocFailureEndsPassOnly ==
  kind = "RAM" =>
    /\ AllocOffsets(errors) = [i \in 1..Len(log.alloc_failed) |-> log.alloc_failed[i].offset]
    /\ \A i \in 1..Len(log.alloc_failed) :
         /\ \A j \in 1..Len(samples) :
               samples[j].pass = log.alloc_failed[i].pass =>
                  samples[j].tested <= log.alloc_failed[i].offset
         /\ \A k \in 1..Len(log.alloc_failed) :
               k # i => log.alloc_failed[k].pass # log.alloc_failed[i].pass
         /\ pc # "ram_finish" => p >= log.alloc_failed[i].pass
    /\ (Returned /\ log.alloc_failed # << >>) =>
         /\ result.status = "FAIL"
         /\ NoEscapedException => p = PassCount(passes)

\* A run of two passes whose first pass failed to allocate its second chunk and
\* whose second pass went through
C22_Witness ==
  /\ kind = "RAM" /\ Returned /\ passes = 2
  /\ log.alloc_failed = <<[pass |-> 1, offset |-> MiB]>>
  /\ result.errors = <<AllocError(MiB)>> /\ result.status = "FAIL"
  /\ \E j \in 1..Len(samples) : samples[j].pass = 2 /\ samples[j].tested = 2 * MiB

\* Two quotients are the same number
FracEq(a, b) == a.num * b.den = b.num * a.den

\* The readings of core c over a sequence of measured samples, and all readings
CoreReadings(vs, c) == [i \in 1..Len(vs) |-> vs[i].percpu[c]]
AllReadings(vs) == [i \in 1..Len(vs) |-> SumSeq(vs[i].percpu)]

\* C23: CPU aggregation uses only valid samples.  Error entries stay in the
\* returned sample list but count in neither samples_count nor the averages: each
\* per-core average is the mean of that core over the valid samples, and the
\* overall average is the mean of the valid samples' averages (0, and no
\* per-core averages, when there is no valid sample).
C23_AggregatesValidSamplesOnly ==
  (kind = "CPU" /\ Returned) =>
    LET vs == ValidSamples(samples) IN
    /\ result.samples = samples
    /\ result.samples_count = Len(vs)
    /\ IF vs = << >>
       THEN result.per_cpu_percent = << >> /\ FracEq(result.avg_cpu_percent, Zero)
       ELSE /\ Len(result.per_cpu_percent) = Len(vs[1].percpu)
            /\ \A c \in 1..Len(vs[1].percpu) :
                  FracEq(result.per_cpu_percent[c],
                         Frac(SumSeq(CoreReadings(vs, c)), Len(vs)))
            /\ FracEq(result.avg_cpu_percent,
                      Frac(SumSeq(AllReadings(vs)), Len(vs[1].percpu) * Len(vs)))

\* A run with one valid sample followed by an error entry
C23_Witness ==
  /\ kind = "CPU" /\ Returned /\ Len(result.samples) = 2
  /\ ~IsError(result.samples[1]) /\ IsError(result.samples[2])
  /\ result.samples_count = 1
  /\ FracEq(result.avg_cpu_percent, result.samples[1].avg)

\* The max_temperature of a result without a reading (None)
NoTemperature == MaxTemp("none")

\* A result with its max_temperature taken out of the comparison
WithoutTemperature(r) == [r EXCEPT !.max_temperature = NoTemperature]

\* C24: an unavailable or failing temperature source is absence, not an error.
\* For the samples of any finished CPU run, the result computed when the source
\* reports nothing or raises has max_temperature None and is in every other field
\* (status and raw samples included, so no error entry is added) the result
\* computed when the read succeeds; the run's own result is one of these.
C24_SensorFailureIsAbsence ==
  (kind = "CPU" /\ Returned) =>
    /\ \A temp \in {"none", "raise"} :
         /\ CpuResult(duration, workers, samples, temp).max_temperature = NoTemperature
         /\ WithoutTemperature(CpuResult(duration, workers, samples, temp))
              = WithoutTemperature(CpuResult(duration, workers, samples, "value"))
    /\ WithoutTemperature(result)
         = WithoutTemperature(CpuResult(duration, workers, samples, "value"))
    /\ result.status = "OK"
    /\ result.samples = samples

\* A run that measured a sample and found no temperature
C24_Witness ==
  /\ kind = "CPU" /\ Returned /\ result.max_temperature = NoTemperature
  /\ result.samples_count >= 1 /\ ~HasError(result.samples) /\ result.status = "OK"

\* How far the stop loop of lines 123-131 has come: the worker it is at, and the
\* call within that worker's step
StepRank(st) ==
  CASE st = "is_alive" -> 1 [] st = "join" -> 2 [] st = "is_alive2" -> 3
    [] st = "terminate" -> 4 [] st = "join2" -> 5 [] OTHER -> 6
StopRank == IF pc = "stop" THEN 6 * sidx + StepRank(sstep) ELSE 6 * (Len(processes) + 1)

\* What holds while and after workers are stopped: the stop loop can always take
\* its next step, and the finished run carries no trace of a failed stop
StopFaultState ==
  kind = "CPU" =>
    /\ pc \in {"stop", "aggregate"} => ENABLED CpuNext
    /\ Returned =>
         /\ sidx = Len(processes)
         /\ result.status = "OK"
         /\ result.samples = samples
         /\ \E temp \in TempOutcomes : result = CpuResult(duration, workers, samples, temp)

\* What holds of every step of the stop loop: a failure (log.stop_faults grows)
\* moves the loop on, to the next call on a worker that survived terminate, and
\* otherwise to the next worker or, after the last one, to aggregation; every
\* step of the loop brings it nearer its end and writes no sample
StopFaultStep ==
  (kind = "CPU" /\ pc = "stop") =>
    /\ log'.stop_faults # log.stop_faults =>
         \/ sstep = "terminate" /\ sstep' = "join2" /\ sidx' = sidx /\ pc' = "stop"
         \/ sidx < Len(processes) /\ pc' = "stop" /\ sidx' = sidx + 1
              /\ sstep' = "is_alive"
         \/ sidx = Len(processes) /\ pc' = "aggregate"
    /\ <<pc, sidx, sstep>>' # <<pc, sidx, sstep>> => StopRank' > StopRank
    /\ samples' = samples /\ result' = result

\* C25: a failure while stopping one worker (is_alive, join or terminate
\* raising, or the worker surviving terminate) is swallowed: the stop loop goes on
\* to every remaining worker and then to aggregation and return, and nothing of
\* the failure is in the returned result.
C25_StopFailureSwallowed == []StopFaultState /\ [][StopFaultStep]_vars

\* A finished run of two workers where stopping the first one failed and the
\* second one was stopped all the same
C25_Witness ==
  /\ kind = "CPU" /\ Returned /\ Len(processes) = 2 /\ log.stop_faults = {1}
  /\ Alive(processes[1]) /\ ~Alive(processes[2])
  /\ result.status = "OK" /\ ~HasError(result.samples)

\* Every spawned worker is running and would pass its next check
UnderLoad ==
  \A w \in 1..Len(processes) :
    Alive(processes[w]) /\ WorkerCond(now, stop_ts, token)

\* C26 (as stated): every CPU sample is measured while load is active: when a
\* sample is appended all workers of the run are still running, the event is not
\* set, and the measurement window, which ends at the new time, has not gone past
\* the deadline at which the workers exit.
C26_SampleWindowUnderLoad ==
  [][(kind = "CPU" /\ Len(samples') > Len(samples) /\ ~IsError(samples'[Len(samples')])) =>
       /\ \A w \in 1..Len(processes) : Alive(processes[w])
       /\ ~token
       /\ now' <= stop_ts]_vars

\* C26: the measurement window of every CPU sample begins while load is active:
\* when a tick begins the deadline has not passed, the event is not set and all
\* workers spawned for the run are running; the window then lasts one
\* sample_interval, so it ends less than one interval after the deadline.
C26_TickBeginsUnderLoad ==
  [][/\ (kind = "CPU" /\ pc = "loop" /\ pc' = "measure") => UnderLoad
     /\ (kind = "CPU" /\ Len(samples') > Len(samples)) =>
          (pc = "measure" /\ now < stop_ts /\ now' = now + sample_interval)]_vars

\* A sample whose window ran past the deadline: asked for 1 second with an
\* interval of 2
C26_Witness ==
  /\ kind = "CPU" /\ Returned /\ Uncancelled /\ Len(processes) >= 1
  /\ Len(samples) = 1 /\ ~IsError(samples[1]) /\ samples[1].ts > stop_ts

\* C27: run_cpu_test leaves the event set on every return, a caller-supplied
\* event the caller never set included.  A run started with an event already set
\* (log.preset: the state the previous run left it in) spawns workers that fail
\* their first check, takes no sample, and returns OK with an overall average of 0.
C27_EventLeftSet ==
  kind = "CPU" =>
    /\ Returned => token
    /\ log.preset =>
         /\ token /\ samples = << >> /\ pc # "measure"
         /\ \A w \in 1..Len(processes) : ~WorkerCond(now, stop_ts, token)
         /\ Returned =>
              /\ result.status = "OK"
              /\ result.samples = << >> /\ result.samples_count = 0
              /\ result.avg_cpu_percent = Zero

\* The second run: its event was set at the call, its worker was spawned and
\* left at its first check, and it returned without a sample
C27_Witness ==
  /\ kind = "CPU" /\ Returned /\ stop_event /\ log.preset /\ ~Cancelled
  /\ Len(processes) = 1 /\ processes[1] = "exited" /\ now = 0
  /\ result.status = "OK" /\ result.samples_count = 0

\* The bytes a pass of the RAM run still has to go, and a measure of the steps
\* the whole run still has to go: it counts the passes not yet over, and within
\* the pass two steps (chunk, callback) for every byte left
BytesLeft == Max(target_bytes, 0) - Min(Max(bytes_written, 0), Max(target_bytes, 0))
RamRank ==
  CASE pc = "done" -> 0
    [] pc = "ram_finish" -> 1
    [] pc = "ram_pass" ->
         (PassCount(passes) - p) * (2 * Max(target_bytes, 0) + 4) + 2 * Max(target_bytes, 0) + 3
    [] pc = "ram_chunk" ->
         (PassCount(passes) - p) * (2 * Max(target_bytes, 0) + 4) + 2 * BytesLeft + 1
    [] pc = "ram_callback" ->
         (PassCount(passes) - p) * (2 * Max(target_bytes, 0) + 4) + 2 * BytesLeft + 2
    [] OTHER -> 0

\* ceil(target / chunk), the most chunks a pass can have
ChunksPerPass == (Max(target_bytes, 0) + chunk - 1) \div chunk

\* What holds in every state of a RAM run past its first lines
RamBoundedState ==
  (kind = "RAM" /\ pc # "start") =>
    /\ chunk >= MiB
    /\ PassCount(passes) >= 1
    /\ p <= PassCount(passes)
    /\ bytes_written <= Max(target_bytes, 0)
    /\ RamRank >= 0
    /\ pc # "done" => ENABLED RamNext
    /\ \A k \in 1..PassCount(passes) :
         Cardinality({j \in 1..Len(samples) : samples[j].pass = k}) <= ChunksPerPass

\* What holds of every step of a RAM run: an iteration of the while loop either
\* advances the pass's byte count by at least one byte, not beyond the target, or
\* leaves the loop; and every step of the run brings it nearer its end
RamBoundedStep ==
  (kind = "RAM" /\ pc # "start") =>
    /\ (pc = "ram_chunk" /\ pc' # pc) =>
         \/ bytes_written' >= bytes_written + 1 /\ pc' = "ram_callback"
         \/ bytes_written' = bytes_written /\ pc' \in {"ram_pass", "ram_finish"}
    /\ (pc = "ram_chunk" /\ pc' = pc /\ samples' # samples) =>
          bytes_written' >= bytes_written + 1
    /\ <<pc, p, bytes_written, samples, errors>>' # <<pc, p, bytes_written, samples, errors>>
          => RamRank' < RamRank

\* C28: run_ram_test terminates for every total_mb, chunk_mb and passes, zero
\* and negative values included: the chunk size is at least 1 MB and the pass
\* count at least 1, every iteration of the while loop advances the pass's byte
\* count by at least one byte toward the target or breaks, a pass has at most
\* ceil(target/chunk) chunks, and a non-negative measure of the work left
\* decreases with every step until the run has returned.
C28_RamRunTerminates == []RamBoundedState /\ [][RamBoundedStep]_vars

\* A finished run whose chunk size and pass count were given as 0
C28_Witness ==
  /\ kind = "RAM" /\ Returned /\ chunk_mb = 0 /\ passes = 0 /\ total_mb = 2
  /\ chunk = MiB /\ p = 1 /\ Len(result.samples) = 2

\* C29: a RAM run whose effective target is zero or negative (total_mb <= 0, or
\* no available memory, so that the 75% ceiling is 0) processes no chunk and
\* returns status OK with tested size 0, no sample and no error.
C29_EmptyTargetIsOk ==
  (kind = "RAM" /\ pc # "start") =>
    /\ (total_mb <= 0 \/ available = 0) => target_bytes <= 0
    /\ target_bytes <= 0 =>
         /\ samples = << >> /\ errors = << >>
         /\ log.chunks = 0 /\ log.faults = 0 /\ bytes_written = 0
         /\ pc # "ram_callback"
         /\ Returned =>
              result = [status |-> "OK", tested |-> 0, errors |-> << >>, samples |-> << >>]

\* A run asked for 2 MB on a machine with no available memory
C29_Witness ==
  /\ kind = "RAM" /\ Returned /\ total_mb = 2 /\ available = 0 /\ target_bytes = 0
  /\ p = PassCount(passes) /\ result.status = "OK" /\ result.tested = 0

\* C30: run_cpu_test does not enforce a worker count of at least 1.  Called with
\* workers <= 0 it spawns no worker (so no spawn can fail), still samples until
\* the deadline or the event (a run nobody cancels and no fault disturbs takes
\* its full count of samples), and returns status OK with the non-positive
\* workers value in the result.
C30_NoWorkersStillOk ==
  (kind = "CPU" /\ pc # "start" /\ workers <= 0) =>
    /\ processes = << >>
    /\ pc \notin {"raised", "stop"}
    /\ Returned =>
         /\ result.status = "OK"
         /\ result.workers = workers
         /\ result.samples = samples
         /\ (Uncancelled /\ ~HasError(samples)) => Len(samples) = FullCount

\* A finished run asked for -1 workers that sampled for its two seconds
C30_Witness ==
  /\ kind = "CPU" /\ Returned /\ workers = -1 /\ processes = << >>
  /\ duration = 2 /\ sample_interval = 1 /\ Len(samples) = 2 /\ ~HasError(samples)
  /\ result.status = "OK" /\ result.workers = -1

====
